---- MODULE Spec2Model ----
(***************************************************************************)
(* A model of git-credential-keepassxc: one run of the tool (configure,   *)
(* get or store) against the KeePassXC socket, the identity store file    *)
(* and git's credential request on stdin.                                  *)
(*                                                                         *)
(* main.rs holds the workflows, config.rs the identity store.  A request  *)
(* to KeePassXC is one step: the request goes out and the answer, drawn   *)
(* from the answers the remote can give, comes back.  A panic (unwrap on  *)
(* nothing, unimplemented!) ends the run with the result "panic".         *)
(*                                                                         *)
(* Spec is a run of the tool.  SpecConfig is a process that has loaded    *)
(* its store and calls the operations of Config on it (add_database,      *)
(* get_databases, add_caller, get_callers, write_to, read_from) while the *)
(* hardware token is plugged in, swapped or removed.                      *)
(***************************************************************************)
EXTENDS Integers, Sequences, FiniteSets, TLC

\* ------------------------------------------------------------------ bounds
\* the largest number of identities (plaintext + at-rest encrypted) in a store
MaxDbs == 3
\* the largest number of entries in a get-logins response
MaxEntries == 2
\* how often one run of the store's interface may turn to the hardware token
MaxCalls == 2
\* the largest number of records (identities + callers) in a store whose
\* interface is called
MaxRecords == 2

\* ------------------------------------------------------- Option and Result
None == <<>>
Some(x) == <<x>>
IsSome(o) == Len(o) = 1
Unwrap(o) == o[1]

Ok(v) == [ok |-> TRUE, val |-> v]
Err(e) == [ok |-> FALSE, err |-> e]

\* ------------------------------------------------------------ identity store
\* crypto_box: the public key that belongs to a secret key
public_key(seckey) == seckey + 100

\* the n-th identity: remote-assigned id, permanent key pair, group
Database(n) ==
    [id |-> n, key |-> 200 + n, pkey |-> public_key(200 + n),
     group |-> "Git", group_uuid |-> 400 + n]

\* the n-th caller of the allow-list
Caller(n) == [path |-> 600 + n, uid |-> None, gid |-> None]

\* base64::encode and base64::decode
base64_encode(bytes) == [base64 |-> bytes]
base64_decode(text) == text.base64

\* serde_json::to_string and serde_json::from_str of one record
to_string(record) == [json |-> record]
from_str(text) == text.json

\* AES-256-GCM: the ciphertext opens only under the key and nonce that made it
AeadEncrypt(key, nonce, plain) == [sealed |-> plain, k |-> key, n |-> nonce]

AeadDecrypt(key, nonce, ciphertext) ==
    IF ciphertext.k = key /\ ciphertext.n = nonce
    THEN Ok(ciphertext.sealed)
    ELSE Err("Failed to decrypt database key")

\* an at-rest encrypted record as the store holds it
EncryptedProfile(plain, key, nonce) ==
    [data |-> base64_encode(AeadEncrypt(key, nonce, to_string(plain))),
     nonce |-> nonce]

\* the lengths of the AES key and of the HMAC-SHA1 response of the token
AES_KEY_LENGTH == 32
YUBIKEY_RESPONSE_LENGTH == 20

\* a YubiKey: its serial number, the secret of its slot, and whether it
\* answers a challenge (it is tapped in time)
Yubikey(serial, answers) ==
    [serial |-> serial, secret |-> 900 + serial, answers |-> answers]

\* the token plugged in: none, or one of two YubiKeys
Tokens == {None} \cup { Some(Yubikey(s, a)) : s \in 1..2, a \in BOOLEAN }

\* Yubico::challenge_response_hmac: HMAC-SHA1 of the challenge under the
\* secret of the slot
challenge_response_hmac(yubi, challenge) ==
    [hmac |-> yubi.secret, challenge |-> challenge]

\* the AES key made of the response: the response, padded with zero bytes
AesKey(hmac_result) ==
    [head |-> hmac_result, zeros |-> AES_KEY_LENGTH - YUBIKEY_RESPONSE_LENGTH]

\* Encryption::ChallengeResponse; response is the key cache (Option)
ChallengeResponse(serial, slot, challenge, response) ==
    [serial |-> serial, slot |-> slot, challenge |-> challenge,
     response |-> response]

\* the encryption profile of the model, made with YubiKey 1, its cache empty
Profile == ChallengeResponse(Some(1), 2, "challenge", None)

\* the key the hardware token derives for the one challenge of the model
TokenKey == AesKey(challenge_response_hmac(Yubikey(1, TRUE), Profile.challenge))

\* Config::new
ConfigNew ==
    [databases |-> <<>>, encrypted_databases |-> <<>>, callers |-> <<>>,
     encrypted_callers |-> <<>>, encryption |-> <<>>]

\* a store of p plaintext identities followed by e encrypted ones, c plaintext
\* callers followed by ec encrypted ones, and the encryption profiles enc
StoreWith(p, e, c, ec, enc) ==
    [databases |-> [i \in 1..p |-> Database(i)],
     encrypted_databases |->
         [j \in 1..e |-> EncryptedProfile(Database(p + j), TokenKey, j)],
     callers |-> [i \in 1..c |-> Caller(i)],
     encrypted_callers |->
         [j \in 1..ec |-> EncryptedProfile(Caller(c + j), TokenKey, j)],
     encryption |-> enc]

\* the stores a run can find: p plaintext identities followed by e encrypted
ConfigWith(p, e) ==
    StoreWith(p, e, 0, 0, IF e > 0 THEN <<Profile>> ELSE <<>>)

Configs == { ConfigWith(p, e) : p \in 0..MaxDbs, e \in 0..MaxDbs }

\* aes_nonce_serialize, with the data of the record
serialize_profile(profile) ==
    [data |-> profile.data, nonce |-> base64_encode(profile.nonce)]

\* aes_nonce_deserialize, with the data of the record
deserialize_profile(profile) ==
    [data |-> profile.data, nonce |-> base64_decode(profile.nonce)]

\* Serialize for Config: the document of a store; the key cache of an
\* encryption profile is skipped
serialize(cfg) ==
    [databases |-> cfg.databases,
     encrypted_databases |->
         [j \in 1..Len(cfg.encrypted_databases) |->
             serialize_profile(cfg.encrypted_databases[j])],
     callers |-> cfg.callers,
     encrypted_callers |->
         [j \in 1..Len(cfg.encrypted_callers) |->
             serialize_profile(cfg.encrypted_callers[j])],
     encryption |->
         [i \in 1..Len(cfg.encryption) |->
             [serial |-> cfg.encryption[i].serial,
              slot |-> cfg.encryption[i].slot,
              challenge |-> cfg.encryption[i].challenge]]]

\* Deserialize for Config: the store of a document; a skipped field takes
\* its default, the empty cache
deserialize(doc) ==
    [databases |-> doc.databases,
     encrypted_databases |->
         [j \in 1..Len(doc.encrypted_databases) |->
             deserialize_profile(doc.encrypted_databases[j])],
     callers |-> doc.callers,
     encrypted_callers |->
         [j \in 1..Len(doc.encrypted_callers) |->
             deserialize_profile(doc.encrypted_callers[j])],
     encryption |->
         [i \in 1..Len(doc.encryption) |->
             ChallengeResponse(doc.encryption[i].serial, doc.encryption[i].slot,
                               doc.encryption[i].challenge, None)]]

\* the store file: absent, or a document that read_from can read ("valid") or
\* cannot read ("invalid": no permission to read it, a record that does not
\* parse); config is the document it holds
Files ==
    { [state |-> "absent", config |-> serialize(ConfigNew)] }
    \cup { [state |-> st, config |-> serialize(c)] :
             st \in {"valid", "invalid"},
             c \in { x \in Configs :
                       Len(x.databases) + Len(x.encrypted_databases) <= MaxDbs } }

\* Config::read_from
read_from(f) ==
    IF f.state = "valid" THEN Ok(deserialize(f.config))
    ELSE Err("ConfigReadFailed")

\* ------------------------------------------------- git's credential request
Protocol == <<"https">>
Host == <<"example.com">>
Path == <<"repo.git">>
Url == <<"https", "://", "git.example.org", "/", "project.git">>

GitReqs ==
    [url : {None, Some(Url)}, protocol : {None, Some(Protocol)},
     host : {None, Some(Host)}, path : {None, Some(Path)},
     username : {None, Some("alice")}, password : {None, Some("s3cret")}]

\* read_git_request asking for the protocol only when there is no URL
ResolveUrl_protocol_only(req) ==
    IF IsSome(req.url) THEN Ok(Unwrap(req.url))
    ELSE IF req.protocol = None
         THEN Err("MalformedCredentialRequest")
         ELSE Ok(Unwrap(req.protocol) \o <<"://">>
                 \o (IF IsSome(req.host) THEN Unwrap(req.host) ELSE <<>>)
                 \o <<"/">>
                 \o (IF IsSome(req.path) THEN Unwrap(req.path) ELSE <<>>))

\* lines 54-70 of read_git_request: the URL of a request
ResolveUrl(req) ==
    IF IsSome(req.url) THEN Ok(Unwrap(req.url))
    ELSE IF req.protocol = None \/ req.host = None
         THEN Err("MalformedCredentialRequest")
         ELSE Ok(Unwrap(req.protocol) \o <<"://">> \o Unwrap(req.host) \o <<"/">>
                 \o (IF IsSome(req.path) THEN Unwrap(req.path) ELSE <<>>))

\* ------------------------------------------------------ the remote's answers
\* the public key KeePassXC answers the key exchange with
HostKey == public_key(801)

\* change-public-keys: no answer at all, or an answer with or without the
\* public key and with or without a successful status
CpkResponses ==
    {Err("HandshakeFailed")}
    \cup { Ok([publicKey |-> pk, success |-> s]) :
             pk \in {None, Some(HostKey)}, s \in {None, Some(TRUE), Some(FALSE)} }

\* ChangePublicKeysRequest::send: the response, provided the exchange worked
\* and the remote echoed a successful status
cpk_send(resp) ==
    IF ~resp.ok THEN resp
    ELSE IF resp.val.success # Some(TRUE) THEN Err("HandshakeFailed")
    ELSE resp

\* ChangePublicKeysResponse::get_public_key
get_public_key(cpr_resp) == cpr_resp.publicKey

\* test-associate: the request fails, or the answer has success true, false
\* or no success field
TasoResponses ==
    {Err("RemoteRequestFailed")}
    \cup { Ok([success |-> s]) : s \in {None, Some(TRUE), Some(FALSE)} }

\* the i-th entry of a get-logins answer
LoginEntry(i, expired) ==
    [uuid |-> 500 + i, login |-> 600 + i, password |-> 700 + i,
     expired |-> expired]

EntryLists ==
    UNION { { [i \in 1..n |-> LoginEntry(i, f[i])] :
                f \in [1..n -> {None, Some(TRUE), Some(FALSE)}] } :
            n \in 0..MaxEntries }

\* get-logins: the request fails (no answer, an error answer, an answer that
\* does not decrypt), or the answer lists entries
GlResponses ==
    {Err("RemoteRequestFailed"), Err("DecryptionFailed")}
    \cup { Ok([entries |-> es]) : es \in EntryLists }

\* set-login
SlResponses ==
    {Err("RemoteRequestFailed")}
    \cup { Ok([success |-> s, error |-> e]) :
             s \in {None, Some(TRUE), Some(FALSE)},
             e \in {None, Some(""), Some("success"), Some("denied")} }

\* associate: the id KeePassXC gives the new key, when the user approved
AssociateResponses ==
    {Err("RemoteRequestFailed"), Ok([id |-> None])}
    \cup { Ok([id |-> Some(n)]) : n \in {1, MaxDbs + 1} }

\* create-new-group
CngResponses ==
    {Err("RemoteRequestFailed"), Ok([name |-> "Git", uuid |-> 450])}

\* ------------------------------------------------------------------- state
VARIABLES
    cmd,        \* the subcommand of this run
    file,       \* the identity store file
    file0,      \* the identity store file as the run found it
    stdin,      \* git's credential request
    pc,         \* where the run is
    config,     \* the loaded store (Option)
    git_req,    \* the parsed request (Option)
    url,        \* the resolved URL (Option)
    session,    \* the host public key of the session (Option)
    idx,        \* associated_databases: the next identity to test
    databases,  \* associated_databases: the identities confirmed so far
    lookup,     \* the result of get_logins_for (Option of Result)
    sl_req,     \* the set-login request built by store_login (Option)
    database_id,\* configure: the id of the association (Option)
    group,      \* configure: the group (Option)
    wire,       \* every request sent to KeePassXC, with its answer
    stdout,     \* what the run has written to stdout
    result,     \* "running", "Ok", the error of the workflow, or "panic"
    exit,       \* how the process ended (Option): exit status, logged message
    token,      \* the hardware token that is plugged in (Option)
    token_calls,\* how often the store has turned to the token
    ret,        \* the last call of the store's interface, with its arguments,
                \* the entry lists it found and its result (Option)
    added,      \* the identities add_database has sealed into the loaded store,
                \* each with whether the store was loaded again since
    saved       \* the identities add_database has sealed into the file

vars == <<cmd, file, file0, stdin, pc, config, git_req, url, session, idx,
          databases, lookup, sl_req, database_id, group, wire, stdout, result,
          exit, token, token_calls, ret, added, saved>>

\* what only the calls of the store's interface change
api == <<token, token_calls, ret, added, saved>>

\* what only the workflows change
workflow == <<cmd, file0, stdin, git_req, url, session, idx, databases, lookup,
              sl_req, database_id, group, wire, stdout, result, exit>>

\* the subcommands of real_main; "none" is a command line without one
Commands == {"configure", "get", "store", "erase", "none"}

Init ==
    /\ cmd \in Commands
    /\ file \in Files
    /\ file0 = file
    /\ stdin \in GitReqs
    /\ pc = "main"
    /\ config = None
    /\ git_req = None
    /\ url = None
    /\ session = None
    /\ idx = 1
    /\ databases = <<>>
    /\ lookup = None
    /\ sl_req = None
    /\ database_id = None
    /\ group = None
    /\ wire = <<>>
    /\ stdout = <<>>
    /\ result = "running"
    /\ exit = None
    /\ token = None
    /\ token_calls = 0
    /\ ret = None
    /\ added = {}
    /\ saved = {}

\* a request and its answer, as they went over the socket
Exchange(action, req, resp) == [action |-> action, req |-> req, resp |-> resp]

\* main: an error of real_main is logged and main returns, which ends the
\* process with status 0; a panic ends it with status 101 and its message
main(r) ==
    CASE r = "Ok" -> [code |-> 0, message |-> None]
      [] r = "panic" -> [code |-> 101, message |-> Some("panic")]
      [] OTHER -> [code |-> 0, message |-> Some(r)]

\* the workflow returns to real_main and main, and the process ends
Return(r) ==
    /\ pc' = "done"
    /\ result' = r
    /\ exit' = Some(main(r))

\* ---------------------------------------------------------------- sessions
\* generate_secret_key, for the session and for a new identity
session_seckey == 800 + 50
id_seckey == 200 + 50

\* exchange_keys without the check that the response carries a public key
exchange_keys_unchecked(resp) ==
    LET cpr_resp == cpk_send(resp) IN
    IF ~cpr_resp.ok THEN cpr_resp
    ELSE Ok(IF IsSome(get_public_key(cpr_resp.val))
            THEN Unwrap(get_public_key(cpr_resp.val)) ELSE 0)

\* exchange_keys: the host public key of the response
exchange_keys(resp) ==
    LET cpr_resp == cpk_send(resp) IN
    IF ~cpr_resp.ok THEN cpr_resp
    ELSE IF get_public_key(cpr_resp.val) = None THEN Err("HandshakeFailed")
    ELSE Ok(Unwrap(get_public_key(cpr_resp.val)))

\* start_session going on after a failed key exchange
start_session_unchecked(resp) ==
    LET host_pubkey == exchange_keys(resp) IN
    Ok([session_seckey |-> session_seckey,
        host_pubkey |-> IF host_pubkey.ok THEN host_pubkey.val ELSE 0])

\* start_session: the session, or the error of the key exchange
start_session(resp) ==
    LET host_pubkey == exchange_keys(resp) IN
    IF ~host_pubkey.ok THEN host_pubkey
    ELSE Ok([session_seckey |-> session_seckey, host_pubkey |-> host_pubkey.val])

\* real_main: the subcommand decides the workflow
Main ==
    /\ UNCHANGED api
    /\ pc = "main"
    /\ CASE cmd = "configure" ->
              pc' = "start_session" /\ UNCHANGED <<result, exit>>
         [] cmd \in {"get", "store"} ->
              pc' = "read_config" /\ UNCHANGED <<result, exit>>
         [] cmd = "erase" -> Return("panic")
         [] OTHER -> Return("NoSubcommand")
    /\ UNCHANGED <<cmd, file, file0, stdin, config, git_req, url, session, idx,
                   databases, lookup, sl_req, database_id, group, wire, stdout>>

\* get_logins, store_login: Config::read_from(config_path)?
ReadConfig ==
    /\ UNCHANGED api
    /\ pc = "read_config"
    /\ LET r == read_from(file) IN
       IF r.ok
       THEN /\ config' = Some(r.val)
            /\ pc' = "read_git_request"
            /\ UNCHANGED <<result, exit>>
       ELSE /\ Return(r.err)
            /\ UNCHANGED config
    /\ UNCHANGED <<cmd, file, file0, stdin, git_req, url, session, idx, databases,
                   lookup, sl_req, database_id, group, wire, stdout>>

\* read_git_request
ReadGitRequest ==
    /\ UNCHANGED api
    /\ pc = "read_git_request"
    /\ LET r == ResolveUrl(stdin) IN
       IF r.ok
       THEN /\ git_req' = Some(stdin)
            /\ url' = Some(r.val)
            /\ pc' = "start_session"
            /\ UNCHANGED <<result, exit>>
       ELSE /\ Return(r.err)
            /\ UNCHANGED <<git_req, url>>
    /\ UNCHANGED <<cmd, file, file0, stdin, config, session, idx, databases,
                   lookup, sl_req, database_id, group, wire, stdout>>

\* configure, get_logins, store_login: start_session()?
StartSession ==
    /\ UNCHANGED api
    /\ pc = "start_session"
    /\ \E resp \in CpkResponses :
         LET r == start_session(resp) IN
         /\ wire' = Append(wire, Exchange("change-public-keys",
                                 [publicKey |-> public_key(session_seckey)], resp))
         /\ IF r.ok
            THEN /\ session' = Some(r.val.host_pubkey)
                 /\ pc' = CASE cmd = "configure" -> "associate"
                            [] cmd = "get" -> "associated_databases"
                            [] OTHER -> "store_check"
                 /\ UNCHANGED <<result, exit>>
            ELSE /\ Return(r.err)
                 /\ UNCHANGED session
    /\ UNCHANGED <<cmd, file, file0, stdin, config, git_req, url, idx, databases,
                   lookup, sl_req, database_id, group, stdout>>

\* ------------------------------------------------------- login retrieval
\* the filter closure taking an answer without a success field as a confirmation
taso_confirms_lenient(taso_resp) ==
    IF taso_resp.ok
    THEN (IF IsSome(taso_resp.val.success) THEN Unwrap(taso_resp.val.success)
          ELSE TRUE)
    ELSE FALSE

\* associated_databases, the filter closure: does the answer confirm the identity
taso_confirms(taso_resp) ==
    IF taso_resp.ok
    THEN (IF IsSome(taso_resp.val.success) THEN Unwrap(taso_resp.val.success)
          ELSE FALSE)
    ELSE FALSE

\* associated_databases without the check for an empty list
associated_databases_unchecked(dbs) == Ok(dbs)

\* associated_databases, after the filter: no confirmed identity is an error
associated_databases(dbs) ==
    IF dbs = <<>> THEN Err("NoValidIdentities") ELSE Ok(dbs)

\* get_logins_for: the (id, public key) pairs of the request
id_key_pairs(dbs) == [i \in 1..Len(dbs) |-> [id |-> dbs[i].id, key |-> dbs[i].pkey]]

\* the filter of get_logins_for keeping every entry
not_expired_any(e) == TRUE

\* get_logins_for: an entry is kept unless it is marked expired
not_expired(e) == e.expired = None \/ ~Unwrap(e.expired)

\* get_logins_for: the entries of the response that are kept
login_entries(gl_resp) == SelectSeq(gl_resp.entries, not_expired)

\* associated_databases: one identity of config.databases is tested
TestAssociate ==
    /\ UNCHANGED api
    /\ pc = "associated_databases"
    /\ idx <= Len(Unwrap(config).databases)
    /\ LET db == Unwrap(config).databases[idx] IN
       \E resp \in TasoResponses :
         /\ wire' = Append(wire, Exchange("test-associate",
                                 [id |-> db.id, key |-> db.pkey], resp))
         /\ databases' = IF taso_confirms(resp) THEN Append(databases, db)
                         ELSE databases
    /\ idx' = idx + 1
    /\ UNCHANGED <<cmd, file, file0, stdin, pc, config, git_req, url, session,
                   lookup, sl_req, database_id, group, stdout, result, exit>>

\* get_logins_for, once every identity is tested
GetLoginsFor ==
    /\ UNCHANGED api
    /\ pc = "associated_databases"
    /\ idx > Len(Unwrap(config).databases)
    /\ LET dbs == associated_databases(databases) IN
       IF ~dbs.ok
       THEN /\ lookup' = Some(dbs)
            /\ UNCHANGED wire
       ELSE \E resp \in GlResponses :
              /\ wire' = Append(wire, Exchange("get-logins",
                                      [url |-> Unwrap(url),
                                       keys |-> id_key_pairs(dbs.val)], resp))
              /\ lookup' = Some(IF resp.ok THEN Ok(login_entries(resp.val))
                                ELSE resp)
    /\ pc' = IF cmd = "get" THEN "get_logins" ELSE "store_login"
    /\ UNCHANGED <<cmd, file, file0, stdin, config, git_req, url, session, idx,
                   databases, sl_req, database_id, group, stdout, result, exit>>

\* get_logins answering with the last entry instead of the first
get_logins_last(entries, req) ==
    IF ~entries.ok THEN entries
    ELSE IF entries.val = <<>> THEN Err("NoMatchingLogin")
    ELSE Ok([req EXCEPT
               !.username = Some(entries.val[Len(entries.val)].login),
               !.password = Some(entries.val[Len(entries.val)].password)])

\* get_logins, from the result of get_logins_for on: the response for git
get_logins(entries, req) ==
    IF ~entries.ok THEN entries
    ELSE IF entries.val = <<>> THEN Err("NoMatchingLogin")
    ELSE Ok([req EXCEPT !.username = Some(Head(entries.val).login),
                        !.password = Some(Head(entries.val).password)])

GetLogins ==
    /\ UNCHANGED api
    /\ pc = "get_logins"
    /\ LET git_resp == get_logins(Unwrap(lookup), Unwrap(git_req)) IN
       IF git_resp.ok
       THEN /\ stdout' = Append(stdout, git_resp.val)
            /\ Return("Ok")
       ELSE /\ Return(git_resp.err)
            /\ UNCHANGED stdout
    /\ UNCHANGED <<cmd, file, file0, stdin, config, git_req, url, session, idx,
                   databases, lookup, sl_req, database_id, group, wire>>

\* ---------------------------------------------------------- login storage
\* store_login: the request must name a username and a password
store_check(req) ==
    IF req.username = None THEN Err("MalformedCredentialRequest")
    ELSE IF req.password = None THEN Err("MalformedCredentialRequest")
    ELSE Ok(req)

\* SetLoginRequest::new called with login and password in each other's place
SetLoginRequest_swapped(u, db, req, uuid) ==
    [url |-> u, submit_url |-> u, id |-> db.id,
     login |-> Unwrap(req.password), password |-> Unwrap(req.username),
     group |-> Some(db.group), group_uuid |-> Some(db.group_uuid), uuid |-> uuid]

SetLoginRequest(u, db, req, uuid) ==
    [url |-> u, submit_url |-> u, id |-> db.id,
     login |-> Unwrap(req.username), password |-> Unwrap(req.password),
     group |-> Some(db.group), group_uuid |-> Some(db.group_uuid), uuid |-> uuid]

\* store_login, the set-login request: an update of the first entry found, or
\* a new login when get_logins_for returned an error.  Err("panic") is the
\* abort of unwrap() on nothing and of unimplemented!()
sl_req_for(cfg, entries, req, u) ==
    IF entries.ok
    THEN IF entries.val = <<>> THEN Err("panic")
         ELSE IF Len(cfg.databases) > 1 THEN Err("panic")
         ELSE IF cfg.databases = <<>> THEN Err("panic")
         ELSE Ok(SetLoginRequest(u, Head(cfg.databases), req,
                                 Some(Head(entries.val).uuid)))
    ELSE IF cfg.databases = <<>> THEN Err("panic")
         ELSE Ok(SetLoginRequest(u, Head(cfg.databases), req, None))

\* store_login trusting the success flag of the answer alone
sl_result_flag_only(sl_resp) ==
    IF ~sl_resp.ok THEN sl_resp.err
    ELSE IF IsSome(sl_resp.val.success)
         THEN IF Unwrap(sl_resp.val.success) THEN "Ok" ELSE "RemoteRequestFailed"
         ELSE "RemoteRequestFailed"

\* store_login: what the answer to set-login makes of the run
sl_result(sl_resp) ==
    IF ~sl_resp.ok THEN sl_resp.err
    ELSE IF IsSome(sl_resp.val.success)
         THEN IF Unwrap(sl_resp.val.success)
                 /\ (sl_resp.val.error = None
                     \/ Unwrap(sl_resp.val.error) = ""
                     \/ Unwrap(sl_resp.val.error) = "success")
              THEN "Ok"
              ELSE "RemoteRequestFailed"
         ELSE "RemoteRequestFailed"

StoreCheck ==
    /\ UNCHANGED api
    /\ pc = "store_check"
    /\ LET r == store_check(Unwrap(git_req)) IN
       IF r.ok
       THEN /\ pc' = "associated_databases"
            /\ UNCHANGED <<result, exit>>
       ELSE Return(r.err)
    /\ UNCHANGED <<cmd, file, file0, stdin, config, git_req, url, session, idx,
                   databases, lookup, sl_req, database_id, group, wire, stdout>>

StoreLogin ==
    /\ UNCHANGED api
    /\ pc = "store_login"
    /\ LET r == sl_req_for(Unwrap(config), Unwrap(lookup), Unwrap(git_req),
                           Unwrap(url)) IN
       IF r.ok
       THEN /\ sl_req' = Some(r.val)
            /\ pc' = "set_login"
            /\ UNCHANGED <<result, exit>>
       ELSE /\ Return(r.err)
            /\ UNCHANGED sl_req
    /\ UNCHANGED <<cmd, file, file0, stdin, config, git_req, url, session, idx,
                   databases, lookup, database_id, group, wire, stdout>>

SetLogin ==
    /\ UNCHANGED api
    /\ pc = "set_login"
    /\ \E resp \in SlResponses :
         /\ wire' = Append(wire, Exchange("set-login", Unwrap(sl_req), resp))
         /\ Return(sl_result(resp))
    /\ UNCHANGED <<cmd, file, file0, stdin, config, git_req, url, session, idx,
                   databases, lookup, sl_req, database_id, group, stdout>>

\* ------------------------------------------------------------ registration
\* configure taking an answer without an id as the empty id
aso_id_default(aso_resp) ==
    IF ~aso_resp.ok THEN aso_resp
    ELSE Ok(IF IsSome(aso_resp.val.id) THEN Unwrap(aso_resp.val.id) ELSE 0)

\* configure: the id of the answer to associate
aso_id(aso_resp) ==
    IF ~aso_resp.ok THEN aso_resp
    ELSE IF aso_resp.val.id = None THEN Err("AssociationDeclined")
    ELSE Ok(Unwrap(aso_resp.val.id))

\* configure: the store to add to is the one on disk, or a new one
config_file(f) == IF read_from(f).ok THEN read_from(f).val ELSE ConfigNew

\* configure: the store with the new identity pushed
push_database(cfg, id, grp) ==
    [cfg EXCEPT !.databases =
        Append(@, [id |-> id, key |-> id_seckey, pkey |-> public_key(id_seckey),
                   group |-> grp.name, group_uuid |-> grp.uuid])]

\* Config::write_to: File::create truncates the file, write_all fills it
WriteOutcomes == {"written", "create failed", "write failed"}

write_to(cfg, f, outcome) ==
    CASE outcome = "written" -> [state |-> "valid", config |-> serialize(cfg)]
      [] outcome = "create failed" -> f
      [] OTHER -> [state |-> "invalid", config |-> serialize(ConfigNew)]

Associate ==
    /\ UNCHANGED api
    /\ pc = "associate"
    /\ \E resp \in AssociateResponses :
         LET r == aso_id(resp) IN
         /\ wire' = Append(wire, Exchange("associate",
                                 [key |-> public_key(session_seckey),
                                  idKey |-> public_key(id_seckey)], resp))
         /\ IF r.ok
            THEN /\ database_id' = Some(r.val)
                 /\ pc' = "create_group"
                 /\ UNCHANGED <<result, exit>>
            ELSE /\ Return(r.err)
                 /\ UNCHANGED database_id
    /\ UNCHANGED <<cmd, file, file0, stdin, config, git_req, url, session, idx,
                   databases, lookup, sl_req, group, stdout>>

\* configure going on with a group of its own when create-new-group failed
cng_group_lenient(cng_resp) ==
    IF cng_resp.ok THEN Ok(cng_resp.val) ELSE Ok([name |-> "Git", uuid |-> 0])

\* configure: cng_req.send(&client_id)? and Group::new of its answer
cng_group(cng_resp) ==
    IF cng_resp.ok THEN Ok(cng_resp.val) ELSE cng_resp

CreateNewGroup ==
    /\ UNCHANGED api
    /\ pc = "create_group"
    /\ \E resp \in CngResponses :
         /\ wire' = Append(wire, Exchange("create-new-group",
                                          [groupName |-> "Git"], resp))
         /\ IF cng_group(resp).ok
            THEN /\ group' = Some(cng_group(resp).val)
                 /\ pc' = "save"
                 /\ UNCHANGED <<result, exit>>
            ELSE /\ Return(cng_group(resp).err)
                 /\ UNCHANGED group
    /\ UNCHANGED <<cmd, file, file0, stdin, config, git_req, url, session, idx,
                   databases, lookup, sl_req, database_id, stdout>>

SaveConfig ==
    /\ UNCHANGED api
    /\ pc = "save"
    /\ \E outcome \in WriteOutcomes :
         LET cfg == push_database(config_file(file), Unwrap(database_id),
                                  Unwrap(group)) IN
         /\ config' = Some(cfg)
         /\ file' = write_to(cfg, file, outcome)
         /\ Return(IF outcome = "written" THEN "Ok" ELSE "ConfigWriteFailed")
    /\ UNCHANGED <<cmd, file0, stdin, git_req, url, session, idx, databases,
                   lookup, sl_req, database_id, group, wire, stdout>>

\* ------------------------------------------------------------ specification
Next ==
    \/ Main
    \/ ReadConfig
    \/ ReadGitRequest
    \/ StartSession
    \/ StoreCheck
    \/ TestAssociate
    \/ GetLoginsFor
    \/ GetLogins
    \/ StoreLogin
    \/ SetLogin
    \/ Associate
    \/ CreateNewGroup
    \/ SaveConfig

Spec == Init /\ [][Next]_vars

\* ------------------------------------------------- the store's interface
\* The operations of Config on a loaded store, in a build with the features
\* encryption and yubikey.  An operation returns the store (its key cache may
\* have been filled), its result, and how often it turned to the token.

\* get_encryption_key, from the message "Current challenge-response
\* encryption profile was created using YubiKey" on: ask the token
derive_key(cfg, yubi) ==
    IF yubi = None
    THEN [config |-> cfg, key |-> Err("YubiKey not found"), asked |-> 1]
    ELSE IF ~Unwrap(yubi).answers
    THEN [config |-> cfg, key |-> Err("YubiKey challenge failed"), asked |-> 1]
    ELSE LET key == AesKey(challenge_response_hmac(
                               Unwrap(yubi), cfg.encryption[1].challenge)) IN
         [config |-> [cfg EXCEPT !.encryption[1].response = Some(key)],
          key |-> Ok(key), asked |-> 1]

get_encryption_key_uncached(cfg, yubi) ==
    IF cfg.encryption = <<>>
    THEN [config |-> cfg, key |-> Err("No encryption profile found"),
          asked |-> 0]
    ELSE derive_key(cfg, yubi)

\* Config::get_encryption_key
get_encryption_key(cfg, yubi) ==
    IF cfg.encryption = <<>>
    THEN [config |-> cfg, key |-> Err("No encryption profile found"),
          asked |-> 0]
    ELSE IF IsSome(cfg.encryption[1].response)
    THEN [config |-> cfg, key |-> Ok(Unwrap(cfg.encryption[1].response)),
          asked |-> 0]
    ELSE derive_key(cfg, yubi)

\* aes_nonce: a random nonce
Nonces == {1, 2}

base64_encrypt_other_nonce(cfg, yubi, data, nonce) ==
    LET k == get_encryption_key(cfg, yubi) IN
    [config |-> k.config, asked |-> k.asked,
     res |-> IF ~k.key.ok THEN k.key
             ELSE Ok([data |-> base64_encode(AeadEncrypt(k.key.val, nonce, data)),
                      nonce |-> nonce + 1])]

\* Config::base64_encrypt; nonce is what aes_nonce returned
base64_encrypt(cfg, yubi, data, nonce) ==
    LET k == get_encryption_key(cfg, yubi) IN
    [config |-> k.config, asked |-> k.asked,
     res |-> IF ~k.key.ok THEN k.key
             ELSE Ok([data |-> base64_encode(AeadEncrypt(k.key.val, nonce, data)),
                      nonce |-> nonce])]

\* Config::base64_decrypt
base64_decrypt(cfg, yubi, data, nonce) ==
    LET k == get_encryption_key(cfg, yubi) IN
    [config |-> k.config, asked |-> k.asked,
     res |-> IF ~k.key.ok THEN k.key
             ELSE AeadDecrypt(k.key.val, nonce, base64_decode(data))]

\* the loop leaving out the records it cannot decrypt
RECURSIVE decrypt_from_skipping(_, _, _, _, _, _)
decrypt_from_skipping(cfg, yubi, profiles, j, acc, asked) ==
    IF j > Len(profiles)
    THEN [config |-> cfg, asked |-> asked, res |-> Ok(acc)]
    ELSE LET d == base64_decrypt(cfg, yubi, profiles[j].data, profiles[j].nonce) IN
         decrypt_from_skipping(
             d.config, yubi, profiles, j + 1,
             IF d.res.ok THEN Append(acc, from_str(d.res.val)) ELSE acc,
             asked + d.asked)

\* the loop of get_databases and of get_callers: decrypt and parse the
\* encrypted records from the j-th on; the first failure ends the call
RECURSIVE decrypt_from(_, _, _, _, _, _)
decrypt_from(cfg, yubi, profiles, j, acc, asked) ==
    IF j > Len(profiles)
    THEN [config |-> cfg, asked |-> asked, res |-> Ok(acc)]
    ELSE LET d == base64_decrypt(cfg, yubi, profiles[j].data, profiles[j].nonce) IN
         IF ~d.res.ok
         THEN [config |-> d.config, asked |-> asked + d.asked, res |-> d.res]
         ELSE decrypt_from(d.config, yubi, profiles, j + 1,
                           Append(acc, from_str(d.res.val)), asked + d.asked)

get_databases_plaintext_only(cfg, yubi) ==
    LET r == decrypt_from(cfg, yubi, cfg.encrypted_databases, 1,
                          cfg.databases, 0) IN
    IF r.res.ok THEN r ELSE [r EXCEPT !.res = Ok(cfg.databases)]

\* Config::get_databases
get_databases(cfg, yubi) ==
    decrypt_from(cfg, yubi, cfg.encrypted_databases, 1, cfg.databases, 0)

\* Config::get_callers
get_callers(cfg, yubi) ==
    decrypt_from(cfg, yubi, cfg.encrypted_callers, 1, cfg.callers, 0)

\* Config::count_databases, Config::count_callers
count_databases(cfg) == Len(cfg.databases) + Len(cfg.encrypted_databases)
count_callers(cfg) == Len(cfg.callers) + Len(cfg.encrypted_callers)

\* add_database keeping in plaintext the identity it could not encrypt
add_database_fallback(cfg, yubi, database, encrypted, nonce) ==
    LET e == base64_encrypt(cfg, yubi, to_string(database), nonce) IN
    IF encrypted /\ e.res.ok
    THEN [config |-> [e.config EXCEPT
                         !.encrypted_databases = Append(@, e.res.val)],
          asked |-> e.asked, res |-> Ok(<<>>)]
    ELSE [config |-> [cfg EXCEPT !.databases = Append(@, database)],
          asked |-> IF encrypted THEN e.asked ELSE 0,
          res |-> IF encrypted THEN e.res ELSE Ok(<<>>)]

\* Config::add_database
add_database(cfg, yubi, database, encrypted, nonce) ==
    IF encrypted
    THEN LET e == base64_encrypt(cfg, yubi, to_string(database), nonce) IN
         IF e.res.ok
         THEN [config |-> [e.config EXCEPT
                              !.encrypted_databases = Append(@, e.res.val)],
               asked |-> e.asked, res |-> Ok(<<>>)]
         ELSE e
    ELSE [config |-> [cfg EXCEPT !.databases = Append(@, database)],
          asked |-> 0, res |-> Ok(<<>>)]

\* Config::add_caller
add_caller(cfg, yubi, caller, encrypted, nonce) ==
    IF encrypted
    THEN LET e == base64_encrypt(cfg, yubi, to_string(caller), nonce) IN
         IF e.res.ok
         THEN [config |-> [e.config EXCEPT
                              !.encrypted_callers = Append(@, e.res.val)],
               asked |-> e.asked, res |-> Ok(<<>>)]
         ELSE e
    ELSE [config |-> [cfg EXCEPT !.callers = Append(@, caller)],
          asked |-> 0, res |-> Ok(<<>>)]

\* the stores a process can load: identities and callers, plaintext and
\* encrypted, with the encryption profile or without it
Stores ==
    { s \in { StoreWith(p, e, c, ec, enc) :
                 p \in 0..1, e \in 0..1, c \in 0..1, ec \in 0..1,
                 enc \in {<<>>, <<Profile>>} } :
        count_databases(s) + count_callers(s) <= MaxRecords }

\* a process has loaded its store and is about to use it
InitConfig ==
    /\ \E c \in Stores : file = [state |-> "valid", config |-> serialize(c)]
    /\ file0 = file
    /\ config = Some(read_from(file).val)
    /\ token \in Tokens
    /\ token_calls = 0
    /\ ret = None
    /\ added = {}
    /\ saved = {}
    /\ pc = "api"
    /\ cmd = "none"
    /\ stdin = [protocol |-> None, host |-> None, path |-> None,
                url |-> None, username |-> None, password |-> None]
    /\ git_req = None
    /\ url = None
    /\ session = None
    /\ idx = 1
    /\ databases = <<>>
    /\ lookup = None
    /\ sl_req = None
    /\ database_id = None
    /\ group = None
    /\ wire = <<>>
    /\ stdout = <<>>
    /\ result = "running"
    /\ exit = None

\* the four entry lists of a store
Entries(cfg) ==
    [databases |-> cfg.databases,
     encrypted_databases |-> cfg.encrypted_databases,
     callers |-> cfg.callers,
     encrypted_callers |-> cfg.encrypted_callers]

\* one call on the loaded store, with the arguments arg, has returned r;
\* before holds the entry lists the call found
Call(op, arg, r) ==
    /\ config' = Some(r.config)
    /\ token_calls' = token_calls + r.asked
    /\ ret' = Some([op |-> op, arg |-> arg, before |-> Entries(Unwrap(config)),
                    res |-> r.res])

\* room for one more record, and for one more turn to the token
Room ==
    /\ token_calls < MaxCalls
    /\ count_databases(Unwrap(config)) + count_callers(Unwrap(config))
         < MaxRecords

AddDatabase ==
    /\ pc = "api"
    /\ Room
    /\ \E encrypted \in BOOLEAN, nonce \in Nonces :
         LET database == Database(count_databases(Unwrap(config)) + 1)
             r == add_database(Unwrap(config), token, database, encrypted, nonce)
         IN /\ Call("add_database",
                    [record |-> database, encrypted |-> encrypted], r)
            /\ added' = IF encrypted /\ r.res.ok
                        THEN added \cup {[db |-> database, loaded |-> FALSE]}
                        ELSE added
    /\ UNCHANGED <<pc, file, token, saved, workflow>>

AddCaller ==
    /\ pc = "api"
    /\ Room
    /\ \E encrypted \in BOOLEAN, nonce \in Nonces :
         LET caller == Caller(count_callers(Unwrap(config)) + 1) IN
         Call("add_caller", [record |-> caller, encrypted |-> encrypted],
              add_caller(Unwrap(config), token, caller, encrypted, nonce))
    /\ UNCHANGED <<pc, file, token, added, saved, workflow>>

GetDatabases ==
    /\ pc = "api"
    /\ token_calls < MaxCalls
    /\ Call("get_databases", None, get_databases(Unwrap(config), token))
    /\ UNCHANGED <<pc, file, token, added, saved, workflow>>

GetCallers ==
    /\ pc = "api"
    /\ token_calls < MaxCalls
    /\ Call("get_callers", None, get_callers(Unwrap(config), token))
    /\ UNCHANGED <<pc, file, token, added, saved, workflow>>

\* Config::write_to on the loaded store
WriteTo ==
    /\ pc = "api"
    /\ \E outcome \in WriteOutcomes :
         /\ file' = write_to(Unwrap(config), file, outcome)
         /\ saved' = CASE outcome = "written" -> added
                       [] outcome = "create failed" -> saved
                       [] OTHER -> {}
         /\ ret' = Some([op |-> "write_to",
                         res |-> IF outcome = "written" THEN Ok(<<>>)
                                 ELSE Err("ConfigWriteFailed")])
    /\ UNCHANGED <<pc, config, token, token_calls, added, workflow>>

\* Config::read_from: the file is loaded again, into a new store
ReadFrom ==
    /\ pc = "api"
    /\ LET r == read_from(file) IN
       /\ config' = IF r.ok THEN Some(r.val) ELSE config
       /\ added' = IF r.ok
                   THEN { [a EXCEPT !.loaded = TRUE] : a \in saved }
                   ELSE added
       /\ ret' = Some([op |-> "read_from",
                       res |-> IF r.ok THEN Ok(<<>>) ELSE r])
    /\ UNCHANGED <<pc, file, token, token_calls, saved, workflow>>

\* the user plugs in, swaps or removes the token, or taps it or not
TokenChange ==
    /\ pc = "api"
    /\ token' \in Tokens \ {token}
    /\ UNCHANGED <<pc, file, config, token_calls, ret, added, saved, workflow>>

NextConfig ==
    \/ AddDatabase
    \/ AddCaller
    \/ GetDatabases
    \/ GetCallers
    \/ WriteTo
    \/ ReadFrom
    \/ TokenChange

SpecConfig == InitConfig /\ [][NextConfig]_vars

\* ------------------------------------------------ what the claims speak of
EncryptedActions ==
    {"associate", "create-new-group", "test-associate", "get-logins", "set-login"}

\* the places of the requests of one kind in the run
Sent(action) == { i \in 1..Len(wire) : wire[i].action = action }

\* the remote answered the key exchange with its public key and a successful status
HandshakeOk(resp) ==
    /\ resp.ok
    /\ resp.val.publicKey # None
    /\ resp.val.success = Some(TRUE)

IsTestAssociate(w) == w.action = "test-associate"

\* the test-associate requests of the run, in the order sent
Tasos == SelectSeq(wire, IsTestAssociate)

\* the remote confirmed the i-th test-associate request
RemoteConfirmed(i) ==
    /\ Tasos[i].resp.ok
    /\ Tasos[i].resp.val.success = Some(TRUE)

ConfirmedPlaces ==
    LET places == [i \in 1..Len(Tasos) |-> i] IN SelectSeq(places, RemoteConfirmed)

\* every identity of the loaded store has been tested
AllTested == config # None /\ lookup # None

\* the pairs of the identities of the store the remote confirmed, in store order
ConfirmedPairs ==
    [k \in 1..Len(ConfirmedPlaces) |->
        [id |-> Unwrap(config).databases[ConfirmedPlaces[k]].id,
         key |-> Unwrap(config).databases[ConfirmedPlaces[k]].pkey]]

\* the answer to the get-logins request of the run
GlResp == wire[CHOOSE g \in Sent("get-logins") : TRUE].resp

\* the places of the entries of an answer that are not marked expired
Unexpired(entries) == { i \in 1..Len(entries) : entries[i].expired # Some(TRUE) }

Min(S) == CHOOSE m \in S : \A x \in S : m <= x

\* ------------------------------------------------------------------ claims
\* C1: no encrypted request (associate, create-new-group, test-associate,
\* get-logins, set-login) is sent unless the key exchange of the same run
\* succeeded before it; the key exchange is tried once; when it fails the run
\* ends with an error, nothing more is sent, and neither the store file nor
\* stdout is written.
C1_NoRequestWithoutHandshake ==
    /\ \A i \in 1..Len(wire) :
         wire[i].action \in EncryptedActions
         => \E j \in 1..(i - 1) :
              wire[j].action = "change-public-keys" /\ HandshakeOk(wire[j].resp)
    /\ Cardinality(Sent("change-public-keys")) <= 1
    /\ \A j \in Sent("change-public-keys") :
         ~HandshakeOk(wire[j].resp)
         => /\ pc = "done"
            /\ result = "HandshakeFailed"
            /\ Len(wire) = j
            /\ stdout = <<>>
            /\ file = file0

\* a store run with identities to test whose key exchange got no public key
C1_Witness ==
    /\ cmd = "store"
    /\ config # None
    /\ Len(Unwrap(config).databases) >= 1
    /\ Len(wire) = 1
    /\ wire[1].resp.ok
    /\ wire[1].resp.val.publicKey = None
    /\ result = "HandshakeFailed"

C3_ConfirmedIdentitiesOnly ==
    /\ \A i \in 1..Len(Tasos) :
         Tasos[i].req = [id |-> Unwrap(config).databases[i].id,
                         key |-> Unwrap(config).databases[i].pkey]
    /\ \A g \in Sent("get-logins") : wire[g].req.keys = ConfirmedPairs
    /\ Cardinality(Sent("get-logins")) <= 1
    /\ (AllTested /\ ConfirmedPairs # <<>>)
       => /\ Cardinality(Sent("get-logins")) = 1
          /\ Unwrap(lookup).ok = GlResp.ok

\* three identities, the second one not confirmed, and the request with the
\* pairs of the first and the third
C3_Witness ==
    /\ Len(Tasos) = 3
    /\ RemoteConfirmed(1)
    /\ ~Tasos[2].resp.ok
    /\ RemoteConfirmed(3)
    /\ \E g \in Sent("get-logins") :
         wire[g].req.keys = <<[id |-> Database(1).id, key |-> Database(1).pkey],
                              [id |-> Database(3).id, key |-> Database(3).pkey]>>
    /\ Unwrap(lookup).ok

\* C4: in get, when the remote confirms none of the identities of the store
\* (request failed, success false, no success field), the run fails with
\* NoValidIdentities, sends no get-logins request and writes nothing to stdout.
C4_NoValidIdentities ==
    (cmd = "get" /\ AllTested /\ ConfirmedPairs = <<>>)
    => /\ Sent("get-logins") = {}
       /\ stdout = <<>>
       /\ Unwrap(lookup) = Err("NoValidIdentities")
       /\ pc = "done" => result = "NoValidIdentities"

\* a finished get run with three identities, one refused in each way
C4_Witness ==
    /\ cmd = "get"
    /\ pc = "done"
    /\ Len(Tasos) = 3
    /\ ~Tasos[1].resp.ok
    /\ Tasos[2].resp.ok /\ Tasos[2].resp.val.success = Some(FALSE)
    /\ Tasos[3].resp.ok /\ Tasos[3].resp.val.success = None
    /\ result = "NoValidIdentities"

\* the identities a store holds, plaintext and at-rest encrypted
Identities(cfg) ==
    { cfg.databases[i] : i \in 1..Len(cfg.databases) }
    \cup { from_str(base64_decode(cfg.encrypted_databases[j].data).sealed) :
             j \in 1..Len(cfg.encrypted_databases) }

\* the set-login requests of the run
SetLogins == { wire[i].req : i \in Sent("set-login") }

\* C5: in store, a failed lookup (no identity confirmed, the get-logins
\* request failed or its answer did not decrypt) ends the run: no set-login
\* request is sent.
C5_LookupFailureIsFatal ==
    (cmd = "store" /\ lookup # None /\ ~Unwrap(lookup).ok)
    => Sent("set-login") = {}

\* C6: in get and store, each identity the store holds, plaintext or at-rest
\* encrypted, is sent in exactly one test-associate request with its id and
\* public key, and every test-associate request precedes the get-logins request.
C6_EveryIdentityTested ==
    (cmd \in {"get", "store"} /\ AllTested)
    => /\ \A d \in Identities(Unwrap(config)) :
            Cardinality({ i \in 1..Len(Tasos) :
                            Tasos[i].req = [id |-> d.id, key |-> d.pkey] }) = 1
       /\ \A t \in Sent("test-associate"), g \in Sent("get-logins") : t < g

\* C7: a get run whose get-logins answer has an entry not marked expired ends
\* well, and the username and password it writes are those of the first such
\* entry in the order of the answer, however many there are.
C7_FirstUnexpiredEntry ==
    (/\ cmd = "get"
     /\ pc = "done"
     /\ Sent("get-logins") # {}
     /\ GlResp.ok
     /\ Unexpired(GlResp.val.entries) # {})
    => LET first == GlResp.val.entries[Min(Unexpired(GlResp.val.entries))] IN
       /\ result = "Ok"
       /\ Len(stdout) = 1
       /\ stdout[1].username = Some(first.login)
       /\ stdout[1].password = Some(first.password)

\* a finished get run that was answered two entries, neither of them expired
C7_Witness ==
    /\ cmd = "get"
    /\ pc = "done"
    /\ Sent("get-logins") # {}
    /\ GlResp.ok
    /\ Unexpired(GlResp.val.entries) = {1, 2}
    /\ result = "Ok"
    /\ stdout[1].username = Some(LoginEntry(1, None).login)

\* C8: the lookup returns the entries of the answer that are not marked
\* expired, all of them and no other; stdout never carries the login of an
\* expired entry; a get run in which no entry is left fails with
\* NoMatchingLogin and writes nothing.
C8_NoExpiredEntry ==
    /\ (lookup # None /\ Sent("get-logins") # {} /\ GlResp.ok)
       => /\ Unwrap(lookup).ok
          /\ \A k \in 1..Len(Unwrap(lookup).val) :
               Unwrap(lookup).val[k].expired # Some(TRUE)
          /\ { Unwrap(lookup).val[k] : k \in 1..Len(Unwrap(lookup).val) }
             = { GlResp.val.entries[i] : i \in Unexpired(GlResp.val.entries) }
          /\ Len(Unwrap(lookup).val) = Cardinality(Unexpired(GlResp.val.entries))
    /\ \A k \in 1..Len(stdout) :
         \E i \in Unexpired(GlResp.val.entries) :
           /\ stdout[k].username = Some(GlResp.val.entries[i].login)
           /\ stdout[k].password = Some(GlResp.val.entries[i].password)
    /\ (/\ cmd = "get"
        /\ pc = "done"
        /\ Sent("get-logins") # {}
        /\ GlResp.ok
        /\ Unexpired(GlResp.val.entries) = {})
       => result = "NoMatchingLogin" /\ stdout = <<>>

\* a finished get run that was answered two entries, both expired
C8_Witness ==
    /\ cmd = "get"
    /\ pc = "done"
    /\ Sent("get-logins") # {}
    /\ GlResp.ok
    /\ Len(GlResp.val.entries) = 2
    /\ Unexpired(GlResp.val.entries) = {}
    /\ result = "NoMatchingLogin"
    /\ stdout = <<>>

\* C9: a store run whose lookup found no login sends exactly one set-login
\* request, without an entry identifier; a store run whose lookup found one
\* login sends exactly one set-login request, with the identifier of that login.
C9_CreateOrUpdate ==
    (cmd = "store" /\ pc = "done" /\ lookup # None /\ Unwrap(lookup).ok)
    => /\ Unwrap(lookup).val = <<>>
          => /\ Cardinality(Sent("set-login")) = 1
             /\ \A r \in SetLogins : r.uuid = None
       /\ Len(Unwrap(lookup).val) = 1
          => /\ Cardinality(Sent("set-login")) = 1
             /\ \A r \in SetLogins : r.uuid = Some(Unwrap(lookup).val[1].uuid)

\* C10: a store run against a store with several identities does not abort
\* for that reason, and sends a set-login request addressed to the first
\* identity, be it to create a login (the lookup failed) or to update one (the
\* lookup found logins).  A lookup that found no login is the case of C9.
C10_FirstIdentityWritten ==
    (/\ cmd = "store"
     /\ pc = "done"
     /\ lookup # None
     /\ Len(Unwrap(config).databases) > 1
     /\ Unwrap(lookup).ok => Unwrap(lookup).val # <<>>)
    => /\ result # "panic"
       /\ Cardinality(Sent("set-login")) = 1
       /\ \A r \in SetLogins : r.id = Head(Unwrap(config).databases).id

\* C11: a store run that sent its set-login request ends well exactly when the
\* answer has success true and an error field that is absent, empty or
\* "success"; success true with another error, success false and no success
\* field all fail the run.  A store run never ends well without that request.
C11_StoreSuccess ==
    /\ (cmd = "store" /\ pc = "done" /\ Sent("set-login") # {})
       => LET r == wire[Len(wire)].resp IN
          (result = "Ok")
          <=> /\ r.ok
              /\ r.val.success = Some(TRUE)
              /\ r.val.error \in {None, Some(""), Some("success")}
    /\ (cmd = "store" /\ result = "Ok") => Sent("set-login") # {}

\* a store run that was answered success true with the error "denied"
C11_Witness ==
    /\ cmd = "store"
    /\ pc = "done"
    /\ Sent("set-login") # {}
    /\ wire[Len(wire)].resp.ok
    /\ wire[Len(wire)].resp.val.success = Some(TRUE)
    /\ wire[Len(wire)].resp.val.error = Some("denied")
    /\ result = "RemoteRequestFailed"

\* C12: a run whose workflow (configure, get, store) returned an error ends
\* with a message and with an exit status other than 0.
C12_ErrorExitsNonZero ==
    (cmd \in {"configure", "get", "store"} /\ pc = "done" /\ result # "Ok")
    => /\ Unwrap(exit).code # 0
       /\ Unwrap(exit).message # None

\* C13: when the associate request fails or its answer carries no id, the
\* configure run ends with an error (AssociationDeclined for an answer without
\* id), no create-new-group request follows and the store file is as it was;
\* a store file written by configure ends with an identity whose id is the one
\* of the answer to this run's associate request.
C13_AssociationDeclined ==
    /\ \A a \in Sent("associate") :
         (~wire[a].resp.ok \/ wire[a].resp.val.id = None)
         => /\ pc = "done"
            /\ result \notin {"Ok", "panic"}
            /\ wire[a].resp.ok => result = "AssociationDeclined"
            /\ Len(wire) = a
            /\ Sent("create-new-group") = {}
            /\ file = file0
    /\ (file # file0 /\ file.state = "valid")
       => /\ file.config.databases # <<>>
          /\ \E a \in Sent("associate") :
               /\ wire[a].resp.ok
               /\ wire[a].resp.val.id
                  = Some(file.config.databases[Len(file.config.databases)].id)

\* a configure run against a store with identities whose association was declined
C13_Witness ==
    /\ cmd = "configure"
    /\ file0.state = "valid"
    /\ file0.config.databases # <<>>
    /\ Sent("associate") # {}
    /\ wire[Len(wire)].action = "associate"
    /\ wire[Len(wire)].resp.ok
    /\ wire[Len(wire)].resp.val.id = None
    /\ result = "AssociationDeclined"

\* C14: get and store leave the store file as it is; after a configure run
\* that ended well the file holds the identities it held before, unchanged and
\* in their order, and one more identity after them, whether the file was
\* there, was not there or could not be read.
C14_IdentitiesKept ==
    /\ cmd \in {"get", "store"} => file = file0
    /\ (cmd = "configure" /\ pc = "done" /\ result = "Ok")
       => /\ file.state = "valid"
          /\ Len(file.config.databases) = Len(file0.config.databases) + 1
          /\ SubSeq(file.config.databases, 1, Len(file0.config.databases))
             = file0.config.databases
          /\ file.config.encrypted_databases = file0.config.encrypted_databases

\* the request of get and store has been read
RequestRead == cmd \in {"get", "store"} /\ config # None /\ pc # "read_git_request"

\* C18: a url in the request is the URL, unchanged; without url, protocol and
\* host make the URL protocol://host/path, with an empty path when there is
\* none; without url and without protocol or host the request is rejected as
\* malformed and get and store send nothing to the remote.
C18_UrlResolution ==
    RequestRead
    => /\ IsSome(stdin.url) => url = stdin.url
       /\ (stdin.url = None /\ IsSome(stdin.protocol) /\ IsSome(stdin.host))
          => url = Some(<<"https", "://", "example.com", "/">>
                        \o (IF IsSome(stdin.path) THEN <<"repo.git">> ELSE <<>>))
       /\ (stdin.url = None /\ (stdin.protocol = None \/ stdin.host = None))
          => /\ pc = "done"
             /\ result = "MalformedCredentialRequest"
             /\ url = None
             /\ wire = <<>>

\* protocol=https, host=example.com, path=repo.git and no url: the get-logins
\* request asks for https://example.com/repo.git
C18_Witness ==
    /\ cmd = "get"
    /\ stdin.url = None
    /\ stdin.protocol = Some(<<"https">>)
    /\ stdin.host = Some(<<"example.com">>)
    /\ stdin.path = Some(<<"repo.git">>)
    /\ Sent("get-logins") # {}
    /\ wire[Len(wire)].req.url = <<"https", "://", "example.com", "/", "repo.git">>

\* C19: a get or store run against a store without identities ends with an
\* error that is returned, not with an abort, and sends neither a get-logins
\* nor a set-login request.
C19_EmptyStoreIsAnError ==
    (/\ cmd \in {"get", "store"}
     /\ pc = "done"
     /\ config # None
     /\ Identities(Unwrap(config)) = {})
    => /\ result \notin {"Ok", "panic"}
       /\ Sent("get-logins") = {}
       /\ Sent("set-login") = {}

\* C20: a store run whose request has no username or no password sends no
\* test-associate, get-logins or set-login request and, when nothing failed
\* before the check, ends as a malformed request; every set-login request
\* carries the username and the password of the request and the resolved URL.
C20_StoreNeedsCredentials ==
    /\ (cmd = "store" /\ (stdin.username = None \/ stdin.password = None))
       => /\ Sent("test-associate") = {}
          /\ Sent("get-logins") = {}
          /\ Sent("set-login") = {}
          /\ (pc = "done" /\ session # None)
             => result = "MalformedCredentialRequest"
          /\ pc = "done" => result # "Ok"
    /\ \A r \in SetLogins :
         /\ r.login = Unwrap(stdin.username)
         /\ r.password = Unwrap(stdin.password)
         /\ r.url = Unwrap(url)
         /\ r.submit_url = Unwrap(url)

\* a store run with a password and no username that stopped after the key exchange
C20_Witness ==
    /\ cmd = "store"
    /\ stdin.username = None
    /\ IsSome(stdin.password)
    /\ session # None
    /\ Len(Unwrap(config).databases) >= 1
    /\ Len(wire) = 1
    /\ result = "MalformedCredentialRequest"

\* ------------------------------------------------------ the store's interface
\* the key cache of the loaded store (Option)
Cache(cfg) == IF cfg.encryption = <<>> THEN None ELSE cfg.encryption[1].response

\* the last call of the store's interface was op
Returned(op) == ret # None /\ Unwrap(ret).op = op

\* the keys that sealed the encrypted identities of a store
SealingKeys(cfg) ==
    { base64_decode(cfg.encrypted_databases[j].data).k :
        j \in 1..Len(cfg.encrypted_databases) }

\* the key of the profile is at hand and it sealed every encrypted identity
SameProfile(cfg) ==
    /\ IsSome(Cache(cfg))
    /\ SealingKeys(cfg) \subseteq {Unwrap(Cache(cfg))}

\* C15: every identity that add_database(D, encrypted = true) has added with
\* success is in the list get_databases returns under the same profile, equal
\* to D in every field, and get_databases succeeds; also when the store was
\* written and loaded again in between.
C15_AtRestRoundTrip ==
    (/\ Returned("get_databases")
     /\ added # {}
     /\ SameProfile(Unwrap(config)))
    => /\ Unwrap(ret).res.ok
       /\ \A a \in added :
            \E i \in 1..Len(Unwrap(ret).res.val) : Unwrap(ret).res.val[i] = a.db

\* get_databases has returned an identity that was added encrypted, written
\* to the file and loaded again
C15_Witness ==
    /\ Returned("get_databases")
    /\ SameProfile(Unwrap(config))
    /\ Unwrap(ret).res.ok
    /\ \E a \in added :
         /\ a.loaded
         /\ \E i \in 1..Len(Unwrap(ret).res.val) : Unwrap(ret).res.val[i] = a.db

\* C16: with encrypted entries in the store and no encryption profile,
\* get_databases and get_callers fail with "No encryption profile found",
\* which is neither the decryption failure nor a list without the entries.
C16_NoProfileIsAnError ==
    (ret # None /\ Unwrap(config).encryption = <<>>)
    => /\ (Returned("get_databases")
           /\ Unwrap(config).encrypted_databases # <<>>)
          => Unwrap(ret).res = Err("No encryption profile found")
       /\ (Returned("get_callers")
           /\ Unwrap(config).encrypted_callers # <<>>)
          => Unwrap(ret).res = Err("No encryption profile found")

\* get_callers has failed on a store without a profile that holds a plaintext
\* and an encrypted caller
C16_Witness ==
    /\ Returned("get_callers")
    /\ Unwrap(config).encryption = <<>>
    /\ Unwrap(config).encrypted_callers # <<>>
    /\ Unwrap(config).callers # <<>>
    /\ Unwrap(ret).res = Err("No encryption profile found")

\* a step that is not the loading of the file into a new store
SameStore == ~Returned("read_from")'

\* one step of the key cache: the token is turned to only while the cache is
\* empty, and a filled cache stays as it is while the store is in use
C17_Step ==
    /\ token_calls' # token_calls => Cache(Unwrap(config)) = None
    /\ (IsSome(Cache(Unwrap(config))) /\ SameStore)
       => Cache(Unwrap(config')) = Cache(Unwrap(config))

\* the document in the file holds no key
C17_NotPersisted ==
    \A i \in 1..Len(file.config.encryption) :
        DOMAIN file.config.encryption[i] = {"serial", "slot", "challenge"}

\* C17: the token is asked only while the key cache is empty; once a key is
\* derived, every later operation on the store uses the cached key without
\* turning to the token, the cached key is never changed or cleared, and the
\* key is no part of the document written to the file.
C17_KeyCachedNotPersisted == []C17_NotPersisted /\ [][C17_Step]_vars

\* two encrypted identities were read with one turn to the token, and the
\* store was written to the file with the key in its cache
C17_Witness ==
    /\ Returned("get_databases")
    /\ Unwrap(ret).res.ok
    /\ Len(Unwrap(config).encrypted_databases) >= 2
    /\ IsSome(Cache(Unwrap(config)))
    /\ token_calls = 1
    /\ saved # {}
    /\ file.config = serialize(Unwrap(config))

\* ------------------------------------------------------------- registration
\* the requests of a configure run, in their order
ConfigureOrder == <<"change-public-keys", "associate", "create-new-group">>

\* the i-th request of a configure run was answered with success
Succeeded(i) ==
    CASE i = 1 -> HandshakeOk(wire[1].resp)
      [] i = 2 -> wire[2].resp.ok /\ wire[2].resp.val.id # None
      [] OTHER -> wire[i].resp.ok

\* C21: a configure run sends change-public-keys, associate and
\* create-new-group in this order, each only after the one before it
\* succeeded; the store file is written only by the last step of the run and
\* only after all three succeeded; when the association was approved and
\* create-new-group failed, the store file is as the run found it.
C21_ConfigureOrder ==
    cmd = "configure"
    => /\ Len(wire) <= Len(ConfigureOrder)
       /\ \A i \in 1..Len(wire) :
            /\ wire[i].action = ConfigureOrder[i]
            /\ i > 1 => Succeeded(i - 1)
       /\ pc = "save" => (Len(wire) = Len(ConfigureOrder)
                          /\ \A i \in 1..Len(wire) : Succeeded(i))
       /\ file # file0 => /\ pc = "done"
                          /\ Len(wire) = Len(ConfigureOrder)
                          /\ \A i \in 1..Len(wire) : Succeeded(i)
       /\ (Len(wire) = Len(ConfigureOrder) /\ ~Succeeded(Len(wire)))
          => /\ Succeeded(2)
             /\ pc = "done"
             /\ result \notin {"Ok", "panic"}
             /\ file = file0

\* the association was approved, create-new-group failed, and the store file
\* with its identities is as it was
C21_Witness ==
    /\ cmd = "configure"
    /\ pc = "done"
    /\ Len(wire) = Len(ConfigureOrder)
    /\ Succeeded(2)
    /\ ~Succeeded(Len(wire))
    /\ file0.state = "valid"
    /\ file0.config.databases # <<>>
    /\ file = file0

\* the encrypted record at the end of a list seals the record under a key
Seals(profile, record) ==
    from_str(base64_decode(profile.data).sealed) = record

\* the last call was op with encrypted = true
ReturnedEncrypted(op) == Returned(op) /\ Unwrap(ret).arg.encrypted

\* C22: add_database and add_caller with encrypted = true either fail, and
\* then the four entry lists of the store are as the call found them, or
\* succeed, and then the encrypted list of the kind has exactly one more entry
\* at its end, which seals the record, and the three other lists, the
\* plaintext list among them, are as the call found them.
C22_EncryptedAddIsAtomic ==
    /\ ReturnedEncrypted("add_database")
       => LET b == Unwrap(ret).before
              c == Entries(Unwrap(config)) IN
          IF Unwrap(ret).res.ok
          THEN /\ Len(c.encrypted_databases) = Len(b.encrypted_databases) + 1
               /\ SubSeq(c.encrypted_databases, 1, Len(b.encrypted_databases))
                  = b.encrypted_databases
               /\ Seals(c.encrypted_databases[Len(c.encrypted_databases)],
                        Unwrap(ret).arg.record)
               /\ c.databases = b.databases
               /\ c.callers = b.callers
               /\ c.encrypted_callers = b.encrypted_callers
          ELSE c = b
    /\ ReturnedEncrypted("add_caller")
       => LET b == Unwrap(ret).before
              c == Entries(Unwrap(config)) IN
          IF Unwrap(ret).res.ok
          THEN /\ Len(c.encrypted_callers) = Len(b.encrypted_callers) + 1
               /\ SubSeq(c.encrypted_callers, 1, Len(b.encrypted_callers))
                  = b.encrypted_callers
               /\ Seals(c.encrypted_callers[Len(c.encrypted_callers)],
                        Unwrap(ret).arg.record)
               /\ c.callers = b.callers
               /\ c.databases = b.databases
               /\ c.encrypted_databases = b.encrypted_databases
          ELSE c = b

\* add_database with encrypted = true has failed for want of the token on a
\* store that holds a plaintext identity and an encryption profile
C22_Witness ==
    /\ ReturnedEncrypted("add_database")
    /\ ~Unwrap(ret).res.ok
    /\ Unwrap(ret).res.err = "YubiKey not found"
    /\ Unwrap(config).databases # <<>>
    /\ Unwrap(config).encryption # <<>>

\* the encrypted identities of a store that open under the key in its cache
Opens(cfg) ==
    { j \in 1..Len(cfg.encrypted_databases) :
        /\ IsSome(Cache(cfg))
        /\ base64_decode(cfg.encrypted_databases[j].data).k = Unwrap(Cache(cfg))
        /\ base64_decode(cfg.encrypted_databases[j].data).n
           = cfg.encrypted_databases[j].nonce }

\* the identities of a store in the order of the lists: the plaintext ones,
\* then the encrypted ones
InOrder(cfg) ==
    cfg.databases
    \o [j \in 1..Len(cfg.encrypted_databases) |->
          from_str(base64_decode(cfg.encrypted_databases[j].data).sealed)]

\* C23: get_databases returns an error and no list, or the complete list: the
\* plaintext identities in their order, then the encrypted ones, decrypted, in
\* their order; when one encrypted identity does not open the call fails; a
\* list it returns is as long as count_databases says.
C23_AllOrNothing ==
    Returned("get_databases")
    => LET cfg == Unwrap(config)
           res == Unwrap(ret).res IN
       /\ res.ok
          => /\ res.val = InOrder(cfg)
             /\ Len(res.val) = count_databases(cfg)
       /\ ~res.ok => DOMAIN res = {"ok", "err"}
       /\ Opens(cfg) # 1..Len(cfg.encrypted_databases) => ~res.ok

\* get_databases has failed at the second encrypted identity: the first one
\* opens under the key in the cache and the second one does not
C23_Witness ==
    /\ Returned("get_databases")
    /\ Unwrap(ret).res = Err("Failed to decrypt database key")
    /\ Len(Unwrap(config).encrypted_databases) = 2
    /\ Opens(Unwrap(config)) = {1}
====
